---- MODULE Spec2Model ----
(***************************************************************************)
(* Model of the Cook Engineering Manual tool servers: five transport       *)
(* variants (stdio, stdio with QueryAgent, SSE/REST, bearer-authenticated  *)
(* REST, OAuth-protected FastMCP) over one read-only page store, one       *)
(* multimodal completion service and one identity provider.                *)
(*                                                                         *)
(* A text is a sequence of string atoms; concatenation is \o.  The content  *)
(* of a chunk is a sequence of runs (n copies of one character), so that a *)
(* slice by characters is exact; a run placed in a text is one atom.       *)
(* External services answer nondeterministically: every handler draws the  *)
(* outcome of each external call it makes.                                 *)
(***************************************************************************)
EXTENDS Integers, Sequences, FiniteSets, TLC

VARIABLES
    variant,            \* which server file this process runs
    env,                \* the environment of the process: name -> value or unset
    store,              \* Page Content Store: sequence of PageRecords
    weaviate_client,    \* cached store handle, 0 = None
    openai_client,      \* cached synthesizer handle, 0 = None
    storeBuilt,         \* number of store handles constructed so far
    synthBuilt,         \* number of synthesizer handles constructed so far
    req,                \* stdio: in-flight call_tool coroutines, per slot
    last                \* the most recently completed invocation

vars == <<variant, env, store, weaviate_client, openai_client, storeBuilt, synthBuilt, req, last>>

\* ---------------------------------------------------------------- bounds

\* Number of call_tool coroutines that may be in flight at once (stdio).
MaxReq == 2

Slots == 1..MaxReq

\* ------------------------------------------------------- program constants

SearchLimit == 5
PageLimit == 10
QaPageLimit == 5
ContextChars == 500

\* ------------------------------------------------------------------ data

Variants == {"stdio", "qa", "sse", "auth", "oauth"}

Rec(section, page, content, hcv, visual) ==
    [section |-> section, page |-> page, content |-> content,
     has_critical_visual |-> hcv, visual_content |-> visual]

\* n copies of the character c
Rep(c, n) == [ch |-> c, n |-> n]

\* The content of a chunk that is longer than the excerpt a search quotes:
\* the excerpt ends inside its second run.
LongContent == <<Rep("a", ContextChars - 1), Rep("b", 2), Rep("c", 1)>>

\* One chunk of the table appendix: page 7 holds more chunks than any page
\* lookup asks for; the second and the last one carry an image.
TableChunk(i) ==
    Rec("Tables", 7, <<Rep("t", i)>>, i \in {2, PageLimit + 1},
        IF i \in {2, PageLimit + 1} THEN ToString(i) ELSE "")

\* The manual as indexed: two chunks share page 1, one of them with an image
\* and the other longer than an excerpt; page 7 is the table appendix.
Manual ==
    << Rec("Wind", 1, <<Rep("w", 1), Rep("i", 1), Rep("n", 1), Rep("d", 1)>>, TRUE, "png-wind-map"),
       Rec("Fans", 1, LongContent, FALSE, ""),
       Rec("Duct", 2, <<Rep("d", 1), Rep("u", 1)>>, TRUE, "png-duct-chart") >>
    \o [i \in 1..(PageLimit + 1) |-> TableChunk(i)]

\* Caller inputs.  An argument is << >> when its key is not in the arguments /
\* body (dict.get gives None) and <<v>> when it is there with value v.
Absent == << >>
Queries == {"", "Is Missouri a high wind zone?"}
Pages == {0, 1, 2, 7, 999}
QueryArgs == {Absent} \cup { <<q>> : q \in Queries }
PageArgs == {Absent} \cup { <<n>> : n \in Pages }
ToolNames == {"search_engineering_manual", "get_page_direct", "other_tool"}
\* An Authorization header is a text; << >> when the request carries none.
NoHeader == << >>
AuthHeaders == {NoHeader, <<"Basic ", "dXNlcg==">>, <<"Bearer ", "sess_1">>}

\* The environment variables the servers read.  A value is a text; the
\* publishable key is given by its characters between and including the "_".
StoreNames == {"WEAVIATE_URL", "WEAVIATE_API_KEY"}
SynthNames == {"OPENAI_API_KEY"}
ClerkNames == {"CLERK_SECRET_KEY", "NEXT_PUBLIC_CLERK_PUBLISHABLE_KEY"}
EnvNames == StoreNames \cup SynthNames \cup ClerkNames

FullEnv ==
    [WEAVIATE_URL |-> <<<<"https://cook.weaviate.cloud">>>>,
     WEAVIATE_API_KEY |-> <<<<"wv-key">>>>,
     OPENAI_API_KEY |-> <<<<"sk-key">>>>,
     CLERK_SECRET_KEY |-> <<<<"sk_test_key">>>>,
     NEXT_PUBLIC_CLERK_PUBLISHABLE_KEY |-> <<<<"pk", "_", "test", "_", "Y29vaw">>>>]

\* Outcomes of the external services.
StoreError == "store unavailable"
SynthError == "connection reset"
ConnectError == "connect failed"
SynthAnswer == "Yes, Missouri is in a high wind zone."
AgentAnswer == "agent summary"

\* The identity provider answers a verification with an HTTP status, or the
\* request to it fails in transport (status 0).
IdpResults == { [transport |-> TRUE, status |-> 200],
                [transport |-> TRUE, status |-> 401],
                [transport |-> TRUE, status |-> 404],
                [transport |-> TRUE, status |-> 500],
                [transport |-> FALSE, status |-> 0] }

\* ----------------------------------------------------------- text helpers

str(n) == ToString(n)

RECURSIVE Join(_, _)
\* sep.join(parts) for a sequence of texts
Join(parts, sep) ==
    IF Len(parts) = 0 THEN << >>
    ELSE IF Len(parts) = 1 THEN parts[1]
    ELSE parts[1] \o sep \o Join(Tail(parts), sep)

Min(a, b) == IF a < b THEN a ELSE b

\* s[:n] of a list
Prefix(s, n) == SubSeq(s, 1, Min(n, Len(s)))

RECURSIVE Slice(_, _)
\* content[:n] of a string given by its runs
Slice(content, n) ==
    IF n <= 0 \/ Len(content) = 0 THEN << >>
    ELSE IF content[1].n <= n
    THEN <<content[1]>> \o Slice(Tail(content), n - content[1].n)
    ELSE <<Rep(content[1].ch, n)>>

\* the atom that stands for n copies of the character c in a formatted text
Atom(c, n) == ToString(<<c, n>>)

\* a string given by its runs, as it stands in a formatted text
Text(content) == [i \in 1..Len(content) |-> Atom(content[i].ch, content[i].n)]

\* [obj.properties["visual_content"] for obj in objs if obj.properties.get("has_critical_visual")]
CriticalImages(objs) ==
    LET flagged == SelectSeq(objs, LAMBDA o : o.has_critical_visual)
    IN  [i \in 1..Len(flagged) |-> flagged[i].visual_content]

\* os.getenv(name): << >> for None, <<value>> otherwise
getenv(name) == env[name]

RECURSIVE split(_, _)
\* s.split(sep) for a one-character sep: the pieces between the separators,
\* one more than there are separators
split(s, sep) ==
    LET cut == { i \in 1..Len(s) : s[i] = sep }
    IN  IF cut = {} THEN <<s>>
        ELSE LET k == CHOOSE i \in cut : \A j \in cut : i <= j
             IN  <<SubSeq(s, 1, k - 1)>> \o split(SubSeq(s, k + 1, Len(s)), sep)

\* ------------------------------------------------------- external services

\* collection_query as it would be if a query consumed the record it ranks first
collection_query_Consuming == store' = SubSeq(store, 2, Len(store))

\* collection.query.*: a query reads the collection and writes nothing
collection_query == store' = store

\* All injective index sequences of length <= n over 1..m.
RECURSIVE Arrangements(_, _)
Arrangements(m, n) ==
    IF n = 0 THEN { << >> }
    ELSE LET shorter == Arrangements(m, n - 1)
             longest == { s \in shorter : Len(s) = n - 1 }
         IN  shorter \cup
             UNION { { Append(a, j) : j \in (1..m) \ { a[k] : k \in 1..Len(a) } } :
                     a \in longest }

\* The records the vectorizer places near some query of Queries: the chunks of
\* the table appendix are near none of them.
Similar == SelectSeq(store, LAMBDA o : o.section # "Tables")

\* collection.query.near_text(limit=5): up to 5 distinct records in the order
\* the store ranks them, or a failure.
NearTextResults ==
    { [ok |-> TRUE, objects |-> [i \in 1..Len(a) |-> Similar[a[i]]], msg |-> ""] :
          a \in Arrangements(Len(Similar), Min(SearchLimit, Len(Similar))) }
    \cup { [ok |-> FALSE, objects |-> << >>, msg |-> StoreError] }

\* collection.query.fetch_objects(filters=page == n, limit): the matching
\* records in store order, capped, or a failure.
FetchResults(page, limit) ==
    LET onPage == SelectSeq(store, LAMBDA o : o.page = page)
    IN  { [ok |-> TRUE, objects |-> Prefix(onPage, limit), msg |-> ""],
          [ok |-> FALSE, objects |-> << >>, msg |-> StoreError] }

\* openai_client.chat.completions.create(...)
SynthResults ==
    { [ok |-> TRUE, content |-> <<SynthAnswer>>, msg |-> ""],
      [ok |-> FALSE, content |-> << >>, msg |-> SynthError] }

\* --------------------------------------------------------- shared builders

NoResultsText == <<"No relevant information found in the engineering manual for your query.">>

\* Fragment as it would be if "..." marked only a content that was cut
Fragment_EllipsisWhenCut(o) ==
    <<"[", o.section, " - Page ", str(o.page), "]\n">>
        \o Text(Slice(o.content, ContextChars))
        \o (IF Slice(o.content, ContextChars) = o.content THEN << >> ELSE <<"...">>)

\* f"[{props['section']} - Page {props['page']}]\n{props['content'][:500]}..."
Fragment(o) ==
    <<"[", o.section, " - Page ", str(o.page), "]\n">>
        \o Text(Slice(o.content, ContextChars)) \o <<"...">>

text_context(objs) == [i \in 1..Len(objs) |-> Fragment(objs[i])]

\* initial_summary as it would be if it named each page once
initial_summary_Distinct(objs) ==
    LET firsts == SelectSeq([i \in 1..Len(objs) |-> i],
                            LAMBDA i : \A j \in 1..(i - 1) : objs[j].page # objs[i].page)
    IN  <<"Found relevant information on pages: ">>
            \o Join([k \in 1..Len(firsts) |-> <<str(objs[firsts[k]].page)>>], <<", ">>)

\* f"Found relevant information on pages: {', '.join(map(str, pages_found))}"
initial_summary(objs) ==
    <<"Found relevant information on pages: ">>
        \o Join([i \in 1..Len(objs) |-> <<str(objs[i].page)>>], <<", ">>)

\* image_parts as it would be if a request carried one image at most
image_parts_FirstOnly(objs) ==
    LET imgs == CriticalImages(objs)
    IN  [i \in 1..Min(1, Len(imgs)) |->
            [url |-> <<"data:image/png;base64,", imgs[i]>>, detail |-> "high"]]

\* the image_url parts appended to message_content, one per flagged record
image_parts(objs) ==
    LET imgs == CriticalImages(objs)
    IN  [i \in 1..Len(imgs) |->
            [url |-> <<"data:image/png;base64,", imgs[i]>>, detail |-> "high"]]

\* message_content of the raw nearest-neighbor variants
message_content(question, objs) ==
    [text |-> <<"You are a technical assistant helping with engineering specifications.\n\nQuestion: ",
                question, "\n\nInitial analysis from search system:\n">>
              \o initial_summary(objs)
              \o <<"\n\nAdditional context from relevant sections:\n">>
              \o Join(text_context(objs), <<"\n">>)
              \o <<"\n\nPlease provide a comprehensive answer. If images are provided, carefully examine them for specific information like maps, charts, or diagrams that may contain data not in the text.">>,
     images |-> image_parts(objs),
     max_tokens |-> 1500]

\* f"No content found for page {page_number}. The manual contains pages 1-150."
NoContentText(page_number) ==
    <<"No content found for page ", str(page_number), ". The manual contains pages 1-150.">>

\* PageText as it would be if it quoted each chunk as a search does
PageText_Excerpts(page_number, objs) ==
    <<"Content from Page ", str(page_number), ":\n\n">>
        \o Join([i \in 1..Len(objs) |->
                    <<"[", objs[i].section, "]\n\n">> \o Text(Slice(objs[i].content, ContextChars))],
                <<"\n\n---\n\n">>)

\* f"Content from Page {page_number}:\n\n" + "\n\n---\n\n".join(page_content)
PageText(page_number, objs) ==
    <<"Content from Page ", str(page_number), ":\n\n">>
        \o Join([i \in 1..Len(objs) |-> <<"[", objs[i].section, "]\n\n">> \o Text(objs[i].content)],
                <<"\n\n---\n\n">>)

\* What one invocation did and answered.  outcome is "return" (a tool result),
\* "raise" (an exception leaves the handler) or "http" (an HTTP response with
\* status and a JSON body {key: text}); calls lists the external calls in order,
\* matched the records the retrieval gave, sent the synthesizer requests.
Run(outcome, status, key, text, images, calls, matched, sent) ==
    [outcome |-> outcome, status |-> status, key |-> key, text |-> text,
     images |-> images, calls |-> calls, matched |-> matched, sent |-> sent]

\* One external call of an invocation: the service and whether it answered.
StoreOk == [svc |-> "store", ok |-> TRUE]
StoreErr == [svc |-> "store", ok |-> FALSE]
SynthOk == [svc |-> "synth", ok |-> TRUE]
SynthErr == [svc |-> "synth", ok |-> FALSE]
IdpCall(accepted) == [svc |-> "idp", ok |-> accepted]

\* An exception that no handler of the application catches: the ASGI stack
\* answers 500 with a fixed body.
Unhandled(calls, matched, sent) ==
    Run("http", 500, "", <<"Internal Server Error">>, << >>, calls, matched, sent)

Invocation(entry, tool, query, page, hdr, handle, idp, run) ==
    [entry |-> entry, tool |-> tool, query |-> query, page |-> page, hdr |-> hdr,
     handle |-> handle, idp |-> idp,
     outcome |-> run.outcome, status |-> run.status, key |-> run.key,
     text |-> run.text, images |-> run.images, calls |-> run.calls,
     matched |-> run.matched, sent |-> run.sent]

NoRun == Run("none", 0, "", << >>, << >>, << >>, << >>, << >>)
NoInvocation == Invocation("none", "none", Absent, Absent, NoHeader, 0, << >>, NoRun)

\* ------------------------------------------- bearer-authenticated REST variant

\* verify_clerk_session as it would be if the HTTPException raised for a
\* malformed publishable key left the try as it was raised
verify_clerk_session_Uncaught(session_token, ires) ==
    LET key == getenv("NEXT_PUBLIC_CLERK_PUBLISHABLE_KEY")
        call == << [token |-> session_token, status |-> ires.status] >>
        Raised(status, detail, idp) ==
            [accepted |-> FALSE, status |-> status, detail |-> detail, idp |-> idp]
        AuthFailed(e, idp) == Raised(401, <<"Auth failed: ", e>>, idp)
    IN  IF session_token = ""
        THEN Raised(401, <<"No session token">>, << >>)
        ELSE IF key = Absent
        THEN AuthFailed("'NoneType' object has no attribute 'split'", << >>)
        ELSE IF Len(split(key[1], "_")) < 3
        THEN Raised(500, <<"Invalid Clerk configuration">>, << >>)
        ELSE IF ~ires.transport
        THEN AuthFailed("transport error", call)
        ELSE IF ires.status # 200
        THEN AuthFailed("401: Invalid session token", call)
        ELSE [accepted |-> TRUE, status |-> 200, detail |-> << >>, idp |-> call]

\* verify_clerk_session(session_token): the session data of an accepted token,
\* or the HTTPException it raises.  "if not session_token" is tested before
\* the try; every exception raised inside the try, the HTTPExceptions
\* included, is caught and raised again as a 401 whose detail quotes it.
verify_clerk_session(session_token, ires) ==
    LET key == getenv("NEXT_PUBLIC_CLERK_PUBLISHABLE_KEY")
        call == << [token |-> session_token, status |-> ires.status] >>
        Raised(status, detail, idp) ==
            [accepted |-> FALSE, status |-> status, detail |-> detail, idp |-> idp]
        AuthFailed(e, idp) == Raised(401, <<"Auth failed: ", e>>, idp)
    IN  IF session_token = ""
        THEN Raised(401, <<"No session token">>, << >>)
        ELSE IF key = Absent
        THEN AuthFailed("'NoneType' object has no attribute 'split'", << >>)
        ELSE IF Len(split(key[1], "_")) < 3
        THEN AuthFailed("500: Invalid Clerk configuration", << >>)
        ELSE IF ~ires.transport
        THEN AuthFailed("transport error", call)
        ELSE IF ires.status # 200
        THEN AuthFailed("401: Invalid session token", call)
        ELSE [accepted |-> TRUE, status |-> 200, detail |-> << >>, idp |-> call]

\* POST /tools/search_engineering_manual: the Authorization header is a
\* parameter of the handler and is not read; verify_clerk_session is not called
search_tool(question, authorization, sres, yres) ==
    IF question = Absent \/ question = <<"">>
    THEN Run("http", 400, "detail", <<"Missing 'query' parameter">>, << >>, << >>, << >>, << >>)
    ELSE IF ~sres.ok
    THEN Unhandled(<<StoreErr>>, << >>, << >>)
    ELSE IF Len(sres.objects) = 0
    THEN Run("http", 200, "result", NoResultsText, << >>, <<StoreOk>>, << >>, << >>)
    ELSE LET msg == message_content(question[1], sres.objects)
         IN  IF yres.ok
             THEN Run("http", 200, "result", yres.content, << >>,
                      <<StoreOk, SynthOk>>, sres.objects, <<msg>>)
             ELSE Run("http", 500, "detail", <<"Error: ", yres.msg>>, << >>,
                      <<StoreOk, SynthErr>>, sres.objects, <<msg>>)

\* get_page_tool as it would be if it tested "page_number is None"
get_page_tool_NoneOnly(page_number, authorization, fres) ==
    IF page_number = Absent
    THEN Run("http", 400, "detail", <<"Missing 'page_number' parameter">>, << >>, << >>, << >>, << >>)
    ELSE IF ~fres.ok
    THEN Unhandled(<<StoreErr>>, << >>, << >>)
    ELSE IF Len(fres.objects) = 0
    THEN Run("http", 200, "result", NoContentText(page_number[1]), << >>, <<StoreOk>>, << >>, << >>)
    ELSE Run("http", 200, "result", PageText(page_number[1], fres.objects), << >>,
             <<StoreOk>>, fres.objects, << >>)

\* POST /tools/get_page_direct: the Authorization header is not read either
get_page_tool(page_number, authorization, fres) ==
    IF page_number = Absent \/ page_number = <<0>>
    THEN Run("http", 400, "detail", <<"Missing 'page_number' parameter">>, << >>, << >>, << >>, << >>)
    ELSE IF ~fres.ok
    THEN Unhandled(<<StoreErr>>, << >>, << >>)
    ELSE IF Len(fres.objects) = 0
    THEN Run("http", 200, "result", NoContentText(page_number[1]), << >>, <<StoreOk>>, << >>, << >>)
    ELSE Run("http", 200, "result", PageText(page_number[1], fres.objects), << >>,
             <<StoreOk>>, fres.objects, << >>)

AuthSearch ==
    /\ variant = "auth"
    /\ \E question \in QueryArgs, hdr \in AuthHeaders,
          sres \in NearTextResults, yres \in SynthResults :
          last' = Invocation("rest", "search_engineering_manual", question, Absent, hdr,
                             weaviate_client, << >>,
                             search_tool(question, hdr, sres, yres))
    /\ collection_query /\ UNCHANGED <<variant, env, weaviate_client, openai_client, storeBuilt, synthBuilt, req>>

AuthGetPage ==
    /\ variant = "auth"
    /\ \E page_number \in PageArgs, hdr \in AuthHeaders :
       \E fres \in FetchResults(IF page_number = Absent THEN 0 ELSE page_number[1], PageLimit) :
          last' = Invocation("rest", "get_page_direct", Absent, page_number, hdr,
                             weaviate_client, << >>,
                             get_page_tool(page_number, hdr, fres))
    /\ collection_query /\ UNCHANGED <<variant, env, weaviate_client, openai_client, storeBuilt, synthBuilt, req>>

\* The session tokens a caller may hand to verify_clerk_session.
SessionTokens == {"", "sess_1", "sess_2", "sess_3"}

\* verify_clerk_session applied to a token.  No endpoint of the server calls
\* it: it runs only when it is invoked directly.
VerifyClerkSession ==
    /\ variant = "auth"
    /\ \E session_token \in SessionTokens, ires \in IdpResults :
          LET v == verify_clerk_session(session_token, ires)
              calls == [i \in 1..Len(v.idp) |-> IdpCall(v.accepted)]
          IN  last' = Invocation("direct", "verify_clerk_session", Absent, Absent,
                                 <<session_token>>, weaviate_client, v.idp,
                                 Run(IF v.accepted THEN "return" ELSE "raise", v.status,
                                     "detail", v.detail, << >>, calls, << >>, << >>))
    /\ UNCHANGED <<variant, env, store, weaviate_client, openai_client,
                   storeBuilt, synthBuilt, req>>

\* ------------------------------------------------------------ SSE variant

\* get_weaviate_client(): the cached handle, or a new one (built tells whether
\* connect_to_weaviate_cloud succeeds; its exception leaves the cache unset)
get_weaviate_client(built) ==
    IF weaviate_client # 0
    THEN [ok |-> TRUE, client |-> weaviate_client, made |-> 0]
    ELSE IF built
    THEN [ok |-> TRUE, client |-> storeBuilt + 1, made |-> 1]
    ELSE [ok |-> FALSE, client |-> 0, made |-> 0]

\* get_openai_client()
get_openai_client(built) ==
    IF openai_client # 0
    THEN [ok |-> TRUE, client |-> openai_client, made |-> 0]
    ELSE IF built
    THEN [ok |-> TRUE, client |-> synthBuilt + 1, made |-> 1]
    ELSE [ok |-> FALSE, client |-> 0, made |-> 0]

\* The effect of one tool function: its run and the client caches after it.
Effect(run, w, o) == [run |-> run, w |-> w, o |-> o]

Cached(kind) ==
    IF kind = "store" THEN [ok |-> TRUE, client |-> weaviate_client, made |-> 0]
    ELSE [ok |-> TRUE, client |-> openai_client, made |-> 0]

\* search_engineering_manual(query) of the SSE server
sse_search_engineering_manual(query, wBuilt, oBuilt, sres, yres) ==
    LET w == get_weaviate_client(wBuilt)
        o == get_openai_client(oBuilt)
        msg == message_content(query, sres.objects)
    IN  IF ~w.ok
        THEN Effect(Run("raise", 0, "", <<ConnectError>>, << >>, << >>, << >>, << >>),
                    w, Cached("synth"))
        ELSE IF ~sres.ok
        THEN Effect(Run("raise", 0, "", <<sres.msg>>, << >>, <<StoreErr>>, << >>, << >>),
                    w, Cached("synth"))
        ELSE IF Len(sres.objects) = 0
        THEN Effect(Run("return", 0, "", NoResultsText, << >>, <<StoreOk>>, << >>, << >>),
                    w, Cached("synth"))
        ELSE IF ~o.ok
        THEN Effect(Run("return", 0, "", <<"Error calling vision model: ", ConnectError>>,
                        << >>, <<StoreOk>>, sres.objects, << >>), w, o)
        ELSE IF yres.ok
        THEN Effect(Run("return", 0, "", yres.content, << >>,
                        <<StoreOk, SynthOk>>, sres.objects, <<msg>>), w, o)
        ELSE Effect(Run("return", 0, "", <<"Error calling vision model: ", yres.msg>>, << >>,
                        <<StoreOk, SynthErr>>, sres.objects, <<msg>>), w, o)

\* get_page_direct(page_number) of the SSE server
sse_get_page_direct(page_number, wBuilt, fres) ==
    LET w == get_weaviate_client(wBuilt)
    IN  IF ~w.ok
        THEN Effect(Run("raise", 0, "", <<ConnectError>>, << >>, << >>, << >>, << >>),
                    w, Cached("synth"))
        ELSE IF ~fres.ok
        THEN Effect(Run("raise", 0, "", <<fres.msg>>, << >>, <<StoreErr>>, << >>, << >>),
                    w, Cached("synth"))
        ELSE IF Len(fres.objects) = 0
        THEN Effect(Run("return", 0, "", NoContentText(page_number), << >>,
                        <<StoreOk>>, << >>, << >>), w, Cached("synth"))
        ELSE Effect(Run("return", 0, "", PageText(page_number, fres.objects), << >>,
                        <<StoreOk>>, fres.objects, << >>), w, Cached("synth"))

\* JSONResponse({"result": result}) / JSONResponse({"error": str(e)}, status_code=500)
RestWrap(e) ==
    LET r == e.run
    IN  Effect(IF r.outcome = "raise"
               THEN Run("http", 500, "error", r.text, << >>, r.calls, r.matched, r.sent)
               ELSE Run("http", 200, "result", r.text, r.images, r.calls, r.matched, r.sent),
               e.w, e.o)

\* POST /tools/search_engineering_manual: query = data.get("query", "")
api_search(data, wBuilt, oBuilt, sres, yres) ==
    LET query == IF data = Absent THEN "" ELSE data[1]
    IN  RestWrap(sse_search_engineering_manual(query, wBuilt, oBuilt, sres, yres))

\* POST /tools/get_page_direct: page_number = data.get("page_number", 1)
api_get_page(data, wBuilt, fres) ==
    LET page_number == IF data = Absent THEN 1 ELSE data[1]
    IN  RestWrap(sse_get_page_direct(page_number, wBuilt, fres))

\* the caches and construction counts after an effect
Commit(e) ==
    /\ weaviate_client' = e.w.client
    /\ storeBuilt' = storeBuilt + e.w.made
    /\ openai_client' = e.o.client
    /\ synthBuilt' = synthBuilt + e.o.made

\* whether a construction attempt may fail is drawn only when one is made
BuildOutcomes(client, names) ==
    IF client # 0 THEN {TRUE}
    ELSE IF \E n \in names : getenv(n) = Absent THEN {FALSE}
    ELSE BOOLEAN

SseToolSearch ==
    /\ variant = "sse"
    /\ \E query \in Queries, sres \in NearTextResults, yres \in SynthResults,
          wBuilt \in BuildOutcomes(weaviate_client, StoreNames), oBuilt \in BuildOutcomes(openai_client, SynthNames) :
          LET e == sse_search_engineering_manual(query, wBuilt, oBuilt, sres, yres)
          IN  /\ Commit(e)
              /\ last' = Invocation("mcp", "search_engineering_manual", <<query>>, Absent,
                                    NoHeader, e.w.client, << >>, e.run)
    /\ collection_query /\ UNCHANGED <<variant, env, req>>

SseToolGetPage ==
    /\ variant = "sse"
    /\ \E page_number \in Pages, wBuilt \in BuildOutcomes(weaviate_client, StoreNames) :
       \E fres \in FetchResults(page_number, PageLimit) :
          LET e == sse_get_page_direct(page_number, wBuilt, fres)
          IN  /\ Commit(e)
              /\ last' = Invocation("mcp", "get_page_direct", Absent, <<page_number>>,
                                    NoHeader, e.w.client, << >>, e.run)
    /\ collection_query /\ UNCHANGED <<variant, env, req>>

SseApiSearch ==
    /\ variant = "sse"
    /\ \E data \in QueryArgs, sres \in NearTextResults, yres \in SynthResults,
          wBuilt \in BuildOutcomes(weaviate_client, StoreNames), oBuilt \in BuildOutcomes(openai_client, SynthNames) :
          LET e == api_search(data, wBuilt, oBuilt, sres, yres)
          IN  /\ Commit(e)
              /\ last' = Invocation("rest", "search_engineering_manual", data, Absent,
                                    NoHeader, e.w.client, << >>, e.run)
    /\ collection_query /\ UNCHANGED <<variant, env, req>>

SseApiGetPage ==
    /\ variant = "sse"
    /\ \E data \in PageArgs, wBuilt \in BuildOutcomes(weaviate_client, StoreNames) :
       \E fres \in FetchResults(IF data = Absent THEN 1 ELSE data[1], PageLimit) :
          LET e == api_get_page(data, wBuilt, fres)
          IN  /\ Commit(e)
              /\ last' = Invocation("rest", "get_page_direct", Absent, data,
                                    NoHeader, e.w.client, << >>, e.run)
    /\ collection_query /\ UNCHANGED <<variant, env, req>>

\* ----------------------------------------------------------- OAuth variant

\* ClerkTokenVerifier.verify_token(token): one GET to the identity provider;
\* an AccessToken on 200, None on any other status or on an exception.
verify_token(token, ires) ==
    [accepted |-> ires.transport /\ ires.status = 200,
     idp |-> << [token |-> token, status |-> ires.status] >>]

\* FastMCP(token_verifier=ClerkTokenVerifier(), auth=AuthSettings(...)): the
\* bearer backend reads "Authorization: Bearer <token>" and asks the verifier.
oauth_authenticate(authorization, ires) ==
    IF Len(authorization) < 2 \/ authorization[1] # "Bearer "
    THEN [accepted |-> FALSE, idp |-> << >>]
    ELSE verify_token(authorization[2], ires)

Unauthorized(idp) ==
    Run("http", 401, "error", <<"invalid_token">>, << >>,
        [i \in 1..Len(idp) |-> IdpCall(FALSE)], << >>, << >>)

\* search_engineering_manual(query) of the OAuth server
oauth_search_engineering_manual(query, sres, yres) ==
    LET msg == message_content(query, sres.objects)
    IN  IF ~sres.ok
        THEN Run("return", 0, "", <<"Error searching manual: ", sres.msg>>, << >>,
                 <<StoreErr>>, << >>, << >>)
        ELSE IF Len(sres.objects) = 0
        THEN Run("return", 0, "", NoResultsText, << >>, <<StoreOk>>, << >>, << >>)
        ELSE IF yres.ok
        THEN Run("return", 0, "", yres.content, << >>,
                 <<StoreOk, SynthOk>>, sres.objects, <<msg>>)
        ELSE Run("return", 0, "", <<"Error searching manual: ", yres.msg>>, << >>,
                 <<StoreOk, SynthErr>>, sres.objects, <<msg>>)

\* oauth_get_page_direct as it would be if it queried again after a failed query
oauth_get_page_direct_Retry(page_number, fres) ==
    IF ~fres.ok
    THEN Run("return", 0, "", <<"Error fetching page: ", fres.msg>>, << >>,
             <<StoreErr, StoreErr>>, << >>, << >>)
    ELSE IF Len(fres.objects) = 0
    THEN Run("return", 0, "", NoContentText(page_number), << >>, <<StoreOk>>, << >>, << >>)
    ELSE Run("return", 0, "", PageText(page_number, fres.objects), << >>,
             <<StoreOk>>, fres.objects, << >>)

\* get_page_direct(page_number) of the OAuth server
oauth_get_page_direct(page_number, fres) ==
    IF ~fres.ok
    THEN Run("return", 0, "", <<"Error fetching page: ", fres.msg>>, << >>,
             <<StoreErr>>, << >>, << >>)
    ELSE IF Len(fres.objects) = 0
    THEN Run("return", 0, "", NoContentText(page_number), << >>, <<StoreOk>>, << >>, << >>)
    ELSE Run("return", 0, "", PageText(page_number, fres.objects), << >>,
             <<StoreOk>>, fres.objects, << >>)

\* a tool run behind the authentication that precedes it
Behind(auth, run) ==
    IF ~auth.accepted THEN Unauthorized(auth.idp)
    ELSE [run EXCEPT !.calls = [i \in 1..Len(auth.idp) |-> IdpCall(TRUE)] \o run.calls]

OauthSearch ==
    /\ variant = "oauth"
    /\ \E query \in Queries, hdr \in AuthHeaders, ires \in IdpResults,
          sres \in NearTextResults, yres \in SynthResults :
          LET auth == oauth_authenticate(hdr, ires)
          IN  last' = Invocation("mcp", "search_engineering_manual", <<query>>, Absent, hdr,
                                 weaviate_client, auth.idp,
                                 Behind(auth, oauth_search_engineering_manual(query, sres, yres)))
    /\ collection_query /\ UNCHANGED <<variant, env, weaviate_client, openai_client, storeBuilt, synthBuilt, req>>

OauthGetPage ==
    /\ variant = "oauth"
    /\ \E page_number \in Pages, hdr \in AuthHeaders, ires \in IdpResults :
       \E fres \in FetchResults(page_number, PageLimit) :
          LET auth == oauth_authenticate(hdr, ires)
          IN  last' = Invocation("mcp", "get_page_direct", Absent, <<page_number>>, hdr,
                                 weaviate_client, auth.idp,
                                 Behind(auth, oauth_get_page_direct(page_number, fres)))
    /\ collection_query /\ UNCHANGED <<variant, env, weaviate_client, openai_client, storeBuilt, synthBuilt, req>>

\* ------------------------------------------------------ QueryAgent variant

\* qa.ask(query): the agent's answer and the sources it cites, or a failure.
AgentResults ==
    { [ok |-> TRUE, sources |-> r.objects, final_answer |-> <<AgentAnswer>>, msg |-> ""] :
          r \in { x \in NearTextResults : x.ok } }
    \cup { [ok |-> FALSE, sources |-> << >>, final_answer |-> << >>, msg |-> StoreError] }

RECURSIVE Fetched(_, _, _)
\* full_objects: the sources whose fetch_object_by_id did not raise, in order
Fetched(sources, k, failing) ==
    IF k > Len(sources) THEN << >>
    ELSE (IF k \in failing THEN << >> ELSE <<sources[k]>>)
             \o Fetched(sources, k + 1, failing)

\* message_content of the QueryAgent variant
qa_message_content(query, final_answer, objs) ==
    [text |-> <<"Question: ", query, "\n\nInitial search results:\n">>
              \o final_answer
              \o <<"\n\nAdditional context:\n">>
              \o Join(text_context(objs), <<"\n">>)
              \o <<"\n\nPlease provide a comprehensive answer. Examine any images carefully for maps, charts, or diagrams.">>,
     images |-> image_parts(objs),
     max_tokens |-> 1500]

\* f"Page {page_number}:\n\n" + "\n\n---\n\n".join(page_content)
qa_PageText(page_number, objs) ==
    <<"Page ", str(page_number), ":\n\n">>
        \o Join([i \in 1..Len(objs) |-> <<"[", objs[i].section, "]\n">> \o Text(objs[i].content)],
                <<"\n\n---\n\n">>)

KeyError(key) == Run("raise", 0, "", <<"KeyError: ", key>>, << >>, << >>, << >>, << >>)

UnknownTool(name) ==
    Run("raise", 0, "", <<"Unknown tool: ", name>>, << >>, << >>, << >>, << >>)

\* call_tool(name, arguments) of the QueryAgent server
qa_call_tool(name, query, page_number, ares, failing, yres, fres) ==
    IF name = "search_engineering_manual"
    THEN IF query = Absent THEN KeyError("query")
         ELSE IF ~ares.ok
         THEN Run("raise", 0, "", <<ares.msg>>, << >>, <<StoreErr>>, << >>, << >>)
         ELSE LET full_objects == Fetched(ares.sources, 1, failing)
                  calls == <<StoreOk>> \o [i \in 1..Len(ares.sources) |->
                                               IF i \in failing THEN StoreErr ELSE StoreOk]
                  has_images == \E i \in 1..Len(full_objects) :
                                    full_objects[i].has_critical_visual
                  msg == qa_message_content(query[1], ares.final_answer, full_objects)
              IN  IF ~has_images
                  THEN Run("return", 0, "", ares.final_answer, << >>, calls, full_objects, << >>)
                  ELSE IF yres.ok
                  THEN Run("return", 0, "", yres.content, CriticalImages(full_objects),
                           calls \o <<SynthOk>>, full_objects, <<msg>>)
                  ELSE Run("raise", 0, "", <<yres.msg>>, << >>,
                           calls \o <<SynthErr>>, full_objects, <<msg>>)
    ELSE IF name = "get_page_direct"
    THEN IF page_number = Absent THEN KeyError("page_number")
         ELSE IF ~fres.ok
         THEN Run("raise", 0, "", <<fres.msg>>, << >>, <<StoreErr>>, << >>, << >>)
         ELSE IF Len(fres.objects) = 0
         THEN Run("return", 0, "", <<"No content found for page ", str(page_number[1])>>,
                  << >>, <<StoreOk>>, << >>, << >>)
         ELSE Run("return", 0, "", qa_PageText(page_number[1], fres.objects),
                  CriticalImages(fres.objects), <<StoreOk>>, fres.objects, << >>)
    ELSE UnknownTool(name)

\* What a service may answer to one handler run: any of its results when the
\* run reaches the call, one result that nothing reads when it does not.
Answers(called, results) ==
    IF called THEN results ELSE { CHOOSE r \in results : ~r.ok }

QaCallTool ==
    /\ variant = "qa"
    /\ \E name \in ToolNames :
       \E query \in (IF name = "get_page_direct" THEN {Absent} ELSE QueryArgs),
          page_number \in (IF name = "search_engineering_manual" THEN {Absent} ELSE PageArgs) :
       \E ares \in Answers(name = "search_engineering_manual" /\ query # Absent, AgentResults),
          fres \in Answers(name = "get_page_direct" /\ page_number # Absent,
                           FetchResults(IF page_number = Absent THEN 0 ELSE page_number[1],
                                        QaPageLimit)) :
       \E failing \in SUBSET (1..Len(ares.sources)),
          yres \in Answers(ares.ok, SynthResults) :
          last' = Invocation("mcp", name, query, page_number, NoHeader, weaviate_client, << >>,
                             qa_call_tool(name, query, page_number, ares, failing, yres, fres))
    /\ collection_query /\ UNCHANGED <<variant, env, weaviate_client, openai_client, storeBuilt, synthBuilt, req>>

\* ----------------------------------------------------------- stdio variant

\* stdio_search as it would be without "if not full_objects: return ..."
stdio_search_NoEmptyCheck(question, sres, yres) ==
    LET msg == message_content(question, sres.objects)
    IN  IF ~sres.ok
        THEN Run("raise", 0, "", <<sres.msg>>, << >>, <<StoreErr>>, << >>, << >>)
        ELSE IF yres.ok
        THEN Run("return", 0, "", yres.content, << >>,
                 <<StoreOk, SynthOk>>, sres.objects, <<msg>>)
        ELSE Run("return", 0, "",
                 <<"Error calling vision model: ", yres.msg,
                   "\n\nPlease check your OpenAI API key and connection.">>,
                 << >>, <<StoreOk, SynthErr>>, sres.objects, <<msg>>)

\* the search branch of call_tool from the answer of near_text on; the second
\* ensure_clients() finds both handles cached and awaits nothing
stdio_search(question, sres, yres) ==
    LET msg == message_content(question, sres.objects)
    IN  IF ~sres.ok
        THEN Run("raise", 0, "", <<sres.msg>>, << >>, <<StoreErr>>, << >>, << >>)
        ELSE IF Len(sres.objects) = 0
        THEN Run("return", 0, "", NoResultsText, << >>, <<StoreOk>>, << >>, << >>)
        ELSE IF yres.ok
        THEN Run("return", 0, "", yres.content, << >>,
                 <<StoreOk, SynthOk>>, sres.objects, <<msg>>)
        ELSE Run("return", 0, "",
                 <<"Error calling vision model: ", yres.msg,
                   "\n\nPlease check your OpenAI API key and connection.">>,
                 << >>, <<StoreOk, SynthErr>>, sres.objects, <<msg>>)

\* stdio_get_page as it would be if it passed the page through the synthesizer
stdio_get_page_Summarised(page_number, fres) ==
    IF ~fres.ok
    THEN Run("raise", 0, "", <<fres.msg>>, << >>, <<StoreErr>>, << >>, << >>)
    ELSE IF Len(fres.objects) = 0
    THEN Run("return", 0, "", NoContentText(page_number), << >>, <<StoreOk>>, << >>, << >>)
    ELSE Run("return", 0, "", <<SynthAnswer>>, CriticalImages(fres.objects),
             <<StoreOk, SynthOk>>, fres.objects,
             <<message_content("page", fres.objects)>>)

\* the get_page_direct branch of call_tool from the answer of fetch_objects on
stdio_get_page(page_number, fres) ==
    IF ~fres.ok
    THEN Run("raise", 0, "", <<fres.msg>>, << >>, <<StoreErr>>, << >>, << >>)
    ELSE IF Len(fres.objects) = 0
    THEN Run("return", 0, "", NoContentText(page_number), << >>, <<StoreOk>>, << >>, << >>)
    ELSE Run("return", 0, "", PageText(page_number, fres.objects),
             CriticalImages(fres.objects), <<StoreOk>>, fres.objects, << >>)

\* A slot holds one call_tool coroutine: where it is suspended, the tool it
\* runs and the store handle ensure_clients() returned to it.  The value of
\* its argument is not read before the store answers, so it is drawn with
\* that answer.
IdleReq == [pc |-> "idle", tool |-> "none", handle |-> 0]

\* Completed as it would be if call_tool kept the last failure in a global and
\* put a note of it before the next result
Completed_NotingFailure(i, r, query, page_number, run) ==
    /\ last' = Invocation("mcp", r.tool, query, page_number, NoHeader, r.handle, << >>,
                          IF last.outcome = "raise"
                          THEN [run EXCEPT !.text = <<"After a failure: ">> \o run.text]
                          ELSE run)
    /\ req' = [req EXCEPT ![i] = IdleReq]

\* the coroutine in slot i ends with this run
Completed(i, r, query, page_number, run) ==
    /\ last' = Invocation("mcp", r.tool, query, page_number, NoHeader, r.handle, << >>, run)
    /\ req' = [req EXCEPT ![i] = IdleReq]

ConnectFailed == Run("raise", 0, "", <<ConnectError>>, << >>, << >>, << >>, << >>)

\* ensure_clients() from "if _openai_client is None" to the await of the store
\* query: nothing is awaited in between
EnsureOpenai(i, r, oBuilt) ==
    LET o == get_openai_client(oBuilt)
    IN  /\ openai_client' = o.client
        /\ synthBuilt' = synthBuilt + o.made
        /\ IF o.ok
           THEN /\ req' = [req EXCEPT ![i] = [r EXCEPT !.pc = "querying"]]
                /\ UNCHANGED last
           ELSE Completed(i, r, Absent, Absent, ConnectFailed)

\* StdioCallTool as it would be if call_tool made sure of the synthesizer
\* handle before it looked at the tool name
StdioCallTool_ClientFirst(i) ==
    /\ variant = "stdio"
    /\ req[i].pc = "idle"
    /\ \E name \in ToolNames, present \in BOOLEAN, oBuilt \in BuildOutcomes(openai_client, SynthNames) :
          LET r == [IdleReq EXCEPT !.tool = name, !.handle = weaviate_client]
              o == get_openai_client(oBuilt)
          IN  IF name \notin {"search_engineering_manual", "get_page_direct"}
              THEN /\ Completed(i, r, Absent, Absent, UnknownTool(name))
                   /\ openai_client' = o.client
                   /\ synthBuilt' = synthBuilt + o.made
                   /\ UNCHANGED <<weaviate_client, storeBuilt>>
              ELSE IF ~present
              THEN /\ Completed(i, r, Absent, Absent,
                                KeyError(IF name = "search_engineering_manual"
                                         THEN "query" ELSE "page_number"))
                   /\ UNCHANGED <<weaviate_client, openai_client, storeBuilt, synthBuilt>>
              ELSE IF weaviate_client = 0
              THEN /\ req' = [req EXCEPT ![i] = [r EXCEPT !.pc = "connecting"]]
                   /\ UNCHANGED <<last, weaviate_client, openai_client, storeBuilt, synthBuilt>>
              ELSE /\ EnsureOpenai(i, r, oBuilt)
                   /\ UNCHANGED <<weaviate_client, storeBuilt>>
    /\ collection_query /\ UNCHANGED <<variant, env>>

\* call_tool(name, arguments) up to its first await; present tells whether
\* arguments holds the key the tool reads
StdioCallTool(i) ==
    /\ variant = "stdio"
    /\ req[i].pc = "idle"
    /\ \E name \in ToolNames, present \in BOOLEAN, oBuilt \in BuildOutcomes(openai_client, SynthNames) :
          LET r == [IdleReq EXCEPT !.tool = name, !.handle = weaviate_client]
          IN  IF name \notin {"search_engineering_manual", "get_page_direct"}
              THEN /\ Completed(i, r, Absent, Absent, UnknownTool(name))
                   /\ UNCHANGED <<weaviate_client, openai_client, storeBuilt, synthBuilt>>
              ELSE IF ~present
              THEN /\ Completed(i, r, Absent, Absent,
                                KeyError(IF name = "search_engineering_manual"
                                         THEN "query" ELSE "page_number"))
                   /\ UNCHANGED <<weaviate_client, openai_client, storeBuilt, synthBuilt>>
              ELSE IF weaviate_client = 0
              THEN \* "if _weaviate_client is None": await the connection
                   /\ req' = [req EXCEPT ![i] = [r EXCEPT !.pc = "connecting"]]
                   /\ UNCHANGED <<last, weaviate_client, openai_client, storeBuilt, synthBuilt>>
              ELSE /\ EnsureOpenai(i, r, oBuilt)
                   /\ UNCHANGED <<weaviate_client, storeBuilt>>
    /\ collection_query /\ UNCHANGED <<variant, env>>

\* the awaited use_async_with_weaviate_cloud(...).__aenter__() ends:
\* "_weaviate_client = <result>" is assigned whatever the cache holds by now
StdioConnected(i) ==
    /\ variant = "stdio"
    /\ req[i].pc = "connecting"
    /\ \E wBuilt \in BuildOutcomes(0, StoreNames),
          oBuilt \in BuildOutcomes(openai_client, SynthNames) :
          IF ~wBuilt
          THEN /\ Completed(i, req[i], Absent, Absent, ConnectFailed)
               /\ UNCHANGED <<weaviate_client, openai_client, storeBuilt, synthBuilt>>
          ELSE /\ weaviate_client' = storeBuilt + 1
               /\ storeBuilt' = storeBuilt + 1
               /\ EnsureOpenai(i, [req[i] EXCEPT !.handle = storeBuilt + 1], oBuilt)
    /\ collection_query /\ UNCHANGED <<variant, env>>

\* the awaited near_text ends; the rest of the search branch runs
StdioSearchAnswered(i) ==
    /\ variant = "stdio"
    /\ req[i].pc = "querying"
    /\ req[i].tool = "search_engineering_manual"
    /\ \E question \in Queries, sres \in NearTextResults, yres \in SynthResults :
          Completed(i, req[i], <<question>>, Absent, stdio_search(question, sres, yres))
    /\ collection_query /\ UNCHANGED <<variant, env, weaviate_client, openai_client, storeBuilt, synthBuilt>>

\* the awaited fetch_objects ends; the rest of the get_page_direct branch runs
StdioPageAnswered(i) ==
    /\ variant = "stdio"
    /\ req[i].pc = "querying"
    /\ req[i].tool = "get_page_direct"
    /\ \E page_number \in Pages :
       \E fres \in FetchResults(page_number, PageLimit) :
          Completed(i, req[i], Absent, <<page_number>>, stdio_get_page(page_number, fres))
    /\ collection_query /\ UNCHANGED <<variant, env, weaviate_client, openai_client, storeBuilt, synthBuilt>>

\* ------------------------------------------------------------ the process

Lazy == {"stdio", "sse"}

Init ==
    /\ variant \in Variants
    /\ env = FullEnv
    /\ store = Manual
    /\ weaviate_client = (IF variant \in Lazy THEN 0 ELSE 1)
    /\ openai_client = (IF variant \in Lazy THEN 0 ELSE 1)
    /\ storeBuilt = (IF variant \in Lazy THEN 0 ELSE 1)
    /\ synthBuilt = (IF variant \in Lazy THEN 0 ELSE 1)
    /\ req = [i \in Slots |-> IdleReq]
    /\ last = NoInvocation

Next ==
    \/ AuthSearch
    \/ AuthGetPage
    \/ SseToolSearch
    \/ SseToolGetPage
    \/ SseApiSearch
    \/ SseApiGetPage
    \/ OauthSearch
    \/ OauthGetPage
    \/ QaCallTool
    \/ \E i \in Slots : StdioCallTool(i)
    \/ \E i \in Slots : StdioConnected(i)
    \/ \E i \in Slots : StdioSearchAnswered(i)
    \/ \E i \in Slots : StdioPageAnswered(i)

Spec == Init /\ [][Next]_vars

\* ------------------------------------------- the process and its environment

\* The module-level statements of the server file ran to the end: the eager
\* variants construct both clients from the environment while they are
\* imported, the OAuth variant derives CLERK_DOMAIN from the publishable key
\* before that; the lazy variants read nothing.
Started ==
    LET key == getenv("NEXT_PUBLIC_CLERK_PUBLISHABLE_KEY")
        clients == \A n \in StoreNames \cup SynthNames : getenv(n) # Absent
    IN  CASE variant \in Lazy -> TRUE
          [] variant \in {"qa", "auth"} -> clients
          [] variant = "oauth" ->
                 /\ key # Absent
                 /\ key # << << >> >>
                 /\ Len(split(key[1], "_")) >= 3
                 /\ clients

\* The environments a deployment may start in: complete, or one name unset.
StartupEnvs == {FullEnv} \cup { [FullEnv EXCEPT ![n] = Absent] : n \in EnvNames }

InitStartup ==
    /\ variant \in Variants
    /\ env \in StartupEnvs
    /\ store = Manual
    /\ weaviate_client = (IF variant \in Lazy \/ ~Started THEN 0 ELSE 1)
    /\ openai_client = (IF variant \in Lazy \/ ~Started THEN 0 ELSE 1)
    /\ storeBuilt = (IF variant \in Lazy \/ ~Started THEN 0 ELSE 1)
    /\ synthBuilt = (IF variant \in Lazy \/ ~Started THEN 0 ELSE 1)
    /\ req = [i \in Slots |-> IdleReq]
    /\ last = NoInvocation

\* A process whose import failed has exited and takes no request.
NextStartup == Started /\ Next

SpecStartup == InitStartup /\ [][NextStartup]_vars

\* ------------------------------------- verify_clerk_session, applied directly

\* The shapes of the publishable key: unset, empty, and one to four pieces.
PublishableKeys ==
    { Absent, << << >> >>, << <<"pk">> >>, << <<"pk", "_", "test">> >>,
      << <<"pk", "_", "test", "_", "Y29vaw">> >>,
      << <<"pk", "_", "live", "_", "Y29vaw", "_", "x">> >> }

ClerkEnvs ==
    { [FullEnv EXCEPT !["NEXT_PUBLIC_CLERK_PUBLISHABLE_KEY"] = k, !["CLERK_SECRET_KEY"] = c] :
          k \in PublishableKeys, c \in {Absent, FullEnv["CLERK_SECRET_KEY"]} }

InitVerify ==
    /\ variant = "auth"
    /\ env \in ClerkEnvs
    /\ store = Manual
    /\ weaviate_client = 1
    /\ openai_client = 1
    /\ storeBuilt = 1
    /\ synthBuilt = 1
    /\ req = [i \in Slots |-> IdleReq]
    /\ last = NoInvocation

NextVerify == VerifyClerkSession

SpecVerify == InitVerify /\ [][NextVerify]_vars

\* ------------------------------------------------------------- properties

Calls(svc) == SelectSeq(last.calls, LAMBDA c : c.svc = svc)

IsSearch == last.tool = "search_engineering_manual"
IsGetPage == last.tool = "get_page_direct"

\* the retrieval of the last invocation answered, with no record
ZeroMatches ==
    /\ Len(Calls("store")) > 0
    /\ \A i \in 1..Len(last.calls) : last.calls[i].svc = "store" => last.calls[i].ok
    /\ Len(last.matched) = 0

\* the request of the last invocation carries no credential the identity
\* provider accepted: no header, no "Bearer " prefix, or a rejected token
Unauthenticated ==
    \/ Len(last.hdr) < 2
    \/ last.hdr[1] # "Bearer "
    \/ \E i \in 1..Len(last.idp) : last.idp[i].status # 200

\* C1: in the authenticated HTTP variants a tool request with no Authorization
\* header, a header without the "Bearer " prefix or a rejected token is answered
\* 401, and neither the store nor the synthesizer is called for it.
C1_RejectedBeforeToolLogic ==
    (variant \in {"auth", "oauth"} /\ last.tool # "none" /\ Unauthenticated)
        => /\ last.outcome = "http"
           /\ last.status = 401
           /\ Len(Calls("store")) = 0
           /\ Len(Calls("synth")) = 0

\* C2 (as stated): in every variant, a search whose retrieval returns zero
\* records returns exactly the no-results sentinel and never calls the
\* synthesizer.
C2_SentinelInEveryVariant ==
    (IsSearch /\ ZeroMatches)
        => /\ last.text = <<"No relevant information found in the engineering manual for your query.">>
           /\ Len(Calls("synth")) = 0

\* C2 (amended): a search whose retrieval returns zero records never calls the
\* synthesizer; it returns exactly the no-results sentinel in the stdio, SSE,
\* bearer-authenticated and OAuth variants, and the agent's final answer in the
\* QueryAgent variant.
C2_ZeroMatches ==
    (IsSearch /\ ZeroMatches)
        => /\ Len(Calls("synth")) = 0
           /\ Len(last.sent) = 0
           /\ last.outcome \in {"return", "http"}
           /\ last.outcome = "http" => last.status = 200 /\ last.key = "result"
           /\ variant # "qa" =>
                 last.text = <<"No relevant information found in the engineering manual for your query.">>
           /\ variant = "qa" => last.text = <<AgentAnswer>>
           /\ Len(last.images) = 0

\* a search of a nearest-neighbor variant found nothing and answered the sentinel
C2_Witness ==
    /\ variant = "sse"
    /\ IsSearch
    /\ ZeroMatches
    /\ last.text = NoResultsText

\* C3: whenever the synthesizer call of a search fails, search raises nothing
\* and returns the text "Error calling vision model: <failure message>"; in the
\* HTTP variants the status stays 200 and the text is the result payload.
C3_SynthesisFailSoft ==
    (IsSearch /\ \E i \in 1..Len(last.calls) :
                    last.calls[i].svc = "synth" /\ ~last.calls[i].ok)
        => /\ last.outcome # "raise"
           /\ Len(last.text) >= 2
           /\ last.text[1] = "Error calling vision model: "
           /\ last.text[2] = SynthError
           /\ last.outcome = "http" => last.status = 200 /\ last.key = "result"

\* C4: a search with at least one matched record returns one text block
\* followed by one image block per matched record with has_critical_visual, in
\* result order, each with the image data that was sent to the synthesizer.
C4_TextThenCriticalImages ==
    (IsSearch /\ Len(last.matched) > 0 /\ last.outcome \in {"return", "http"}
              /\ (last.outcome = "http" => last.status = 200))
        => /\ last.images = CriticalImages(last.matched)
           /\ \A k \in 1..Len(last.sent) :
                 /\ Len(last.sent[k].images) = Len(last.images)
                 /\ \A j \in 1..Len(last.images) :
                       last.sent[k].images[j].url[2] = last.images[j]

\* C5: in every variant, a page lookup whose exact-match query returns zero
\* records returns exactly "No content found for page <N>. The manual contains
\* pages 1-150." and nothing else.
C5_NoContentSentinel ==
    (IsGetPage /\ ZeroMatches /\ last.page # Absent)
        => /\ last.text = <<"No content found for page ", ToString(last.page[1]),
                            ". The manual contains pages 1-150.">>
           /\ Len(last.images) = 0

\* C6: a get_page invocation never calls the synthesizer, whether the lookup
\* matches records, matches none or fails.
C6_PageLookupNeverSynthesizes ==
    IsGetPage => (Len(Calls("synth")) = 0 /\ Len(last.sent) = 0)

\* a page lookup that matched the two records of a page has completed
C6_Witness ==
    /\ IsGetPage
    /\ Len(last.matched) = 2
    /\ Len(Calls("store")) = 1
    /\ last.outcome \in {"return", "http"}

\* C7: under any interleaving of tool invocations, the store handle and the
\* synthesizer handle are each constructed at most once per process, and every
\* invocation uses that one handle.
C7_HandlesBuiltOnce ==
    /\ storeBuilt <= 1
    /\ synthBuilt <= 1
    /\ last.handle \in {0, 1}

\* call i of the last invocation failed
CallFailed(i) == ~last.calls[i].ok

\* the external calls of the last invocation come in the order identity
\* provider, store, synthesizer
Rank(svc) == IF svc = "idp" THEN 1 ELSE IF svc = "store" THEN 2 ELSE 3

CallsInOrder ==
    \A i, j \in 1..Len(last.calls) :
        i < j => Rank(last.calls[i].svc) <= Rank(last.calls[j].svc)

\* C8 (as stated): every tool invocation, the QueryAgent search included, makes
\* at most one retrieval query, one authentication check and one synthesizer
\* call.
C8_OneCallEach ==
    /\ Len(Calls("store")) <= 1
    /\ Len(Calls("idp")) <= 1
    /\ Len(Calls("synth")) <= 1

\* C8 (amended): every tool invocation makes at most one authentication check
\* and at most one synthesizer call, one after another, and nothing is retried;
\* it makes at most one retrieval query, except the QueryAgent search, which
\* asks the agent once and then fetches every cited source by id, one store call
\* per source, going on to the next source when a fetch fails.
C8_CallBudget ==
    /\ Len(Calls("idp")) <= 1
    /\ Len(Calls("synth")) <= 1
    /\ CallsInOrder
    /\ ~(variant = "qa" /\ IsSearch) =>
          /\ Len(Calls("store")) <= 1
          /\ \A i \in 1..Len(last.calls) : CallFailed(i) => i = Len(last.calls)
    /\ (variant = "qa" /\ IsSearch) =>
          /\ Len(last.matched) =
                Len(SelectSeq(Calls("store"), LAMBDA c : c.ok)) - 1
             \/ Len(Calls("store")) <= 1
          /\ \A i \in 1..Len(last.calls) :
                (CallFailed(i) /\ (i = 1 \/ last.calls[i].svc = "synth"))
                    => i = Len(last.calls)

\* a QueryAgent search fanned out into one fetch per cited source
C8_Witness ==
    /\ variant = "qa"
    /\ IsSearch
    /\ Len(Calls("store")) = 4
    /\ Len(Calls("synth")) = 1

\* C9: in the authenticating variants every request with a bearer token makes
\* exactly one identity-provider call with that token, is accepted only when the
\* call returns 200 and rejected otherwise, and nothing is kept: each request
\* with the same token makes its own call.
C9_VerifiedOnEveryRequest ==
    (variant \in {"auth", "oauth"} /\ last.tool # "none"
        /\ Len(last.hdr) = 2 /\ last.hdr[1] = "Bearer ")
        => /\ Len(last.idp) = 1
           /\ last.idp[1].token = last.hdr[2]
           /\ last.idp[1].status # 200 => (last.outcome = "http" /\ last.status = 401)

\* C10: in every HTTP variant a POST to the search endpoint with no query in
\* the body, and a POST to the get_page endpoint with no page_number, is
\* answered 400 and makes no store query.
C10_MissingArgumentIs400 ==
    (last.entry = "rest"
        /\ \/ IsSearch /\ last.query = Absent
           \/ IsGetPage /\ last.page = Absent)
        => /\ last.outcome = "http"
           /\ last.status = 400
           /\ Len(Calls("store")) = 0

\* the positions of the flagged records in a list of records
FlaggedAt(objs) == { i \in 1..Len(objs) : objs[i].has_critical_visual }

\* the position of the k-th flagged record
NthFlagged(objs, k) ==
    CHOOSE i \in FlaggedAt(objs) : Cardinality({ j \in FlaggedAt(objs) : j <= i }) = k

\* C11: for every search with at least one matched record, the images attached
\* to the synthesizer request are exactly the matched records flagged
\* has_critical_visual, in match order, one image per such record and none
\* else, each carrying that record's stored visual_content.
C11_ImagesAreFlaggedMatches ==
    (IsSearch /\ Len(last.matched) > 0)
        => /\ Len(last.sent) <= 1
           /\ \A r \in 1..Len(last.sent) :
                 LET imgs == last.sent[r].images
                 IN  /\ Len(imgs) = Cardinality(FlaggedAt(last.matched))
                     /\ \A k \in 1..Len(imgs) :
                           imgs[k].url =
                               <<"data:image/png;base64,",
                                 last.matched[NthFlagged(last.matched, k)].visual_content>>

\* a search matched a flagged, an unflagged and a flagged record, against store
\* order, and its request carries the two images in match order
C11_Witness ==
    /\ IsSearch
    /\ Len(last.matched) = 3
    /\ FlaggedAt(last.matched) = {1, 3}
    /\ last.matched[1].section = "Duct"
    /\ Len(last.sent) = 1
    /\ Len(last.sent[1].images) = 2
    /\ last.sent[1].images[1].url[2] = "png-duct-chart"
    /\ last.sent[1].images[2].url[2] = "png-wind-map"

\* the page a lookup asked for (the SSE REST endpoint reads a missing
\* page_number as 1)
PageAsked == IF last.page = Absent THEN 1 ELSE last.page[1]

\* the records of the store whose page field is n, in store order
OnPage(n) == SelectSeq(store, LAMBDA o : o.page = n)

\* the last invocation is a page lookup that answered with matched records
PageFound ==
    /\ IsGetPage
    /\ Len(last.matched) > 0
    /\ last.outcome \in {"return", "http"}

RECURSIVE SegStart(_, _, _)
\* where the k-th segment starts in a text whose first segment starts at first:
\* a segment is "[", the section, the closing atom and the content, and a
\* separator stands between two segments
SegStart(objs, first, k) ==
    IF k = 1 THEN first
    ELSE SegStart(objs, first, k - 1) + 3 + Len(objs[k - 1].content) + 1

\* from position first on, text is exactly one segment per record of objs, in
\* order, each with the whole content, joined by the horizontal rule
SegmentsAt(text, objs, first, close) ==
    /\ Len(text) = SegStart(objs, first, Len(objs) + 1) - 2
    /\ \A k \in 1..Len(objs) :
          LET s == SegStart(objs, first, k)
              c == objs[k].content
          IN  /\ text[s] = "["
              /\ text[s + 1] = objs[k].section
              /\ text[s + 2] = close
              /\ \A j \in 1..Len(c) : text[s + 2 + j] = Atom(c[j].ch, c[j].n)
              /\ k < Len(objs) => text[s + 3 + Len(c)] = "\n\n---\n\n"

\* C12 (as stated): the text a page lookup returns is the concatenation of one
\* segment "[<section>]\n\n<content>" for every record of the store whose page
\* is the number asked for, joined by the horizontal rule, and nothing else.
C12_EveryRecordOfThePage ==
    PageFound => SegmentsAt(last.text, OnPage(PageAsked), 1, "]\n\n")

\* C12 (amended): the text a page lookup returns is a header naming the page
\* followed by one segment per record the store query returned, in result
\* order, each with the whole content, joined by the horizontal rule; the query
\* returns the records of that page up to its cap (10, 5 in the QueryAgent
\* variant), and the QueryAgent variant writes "Page <N>:" and closes the
\* section with one newline instead of two.
C12_HeaderThenCappedSegments ==
    PageFound =>
        LET cap == IF variant = "qa" THEN 5 ELSE 10
            onPage == OnPage(PageAsked)
        IN  /\ Len(last.matched) = (IF Len(onPage) < cap THEN Len(onPage) ELSE cap)
            /\ \A k \in 1..Len(last.matched) : last.matched[k] = onPage[k]
            /\ last.text[1] = (IF variant = "qa" THEN "Page " ELSE "Content from Page ")
            /\ last.text[2] = ToString(PageAsked)
            /\ last.text[3] = ":\n\n"
            /\ SegmentsAt(last.text, last.matched, 4,
                          IF variant = "qa" THEN "]\n" ELSE "]\n\n")

\* a lookup of the table appendix, which has one chunk more than the cap: the
\* text is the header, ten segments of four atoms and nine separators
C12_Witness ==
    /\ variant = "stdio"
    /\ PageFound
    /\ PageAsked = 7
    /\ Len(OnPage(7)) = 11
    /\ Len(last.matched) = 10
    /\ Len(last.text) = 3 + 10 * 4 + 9

\* C13: in every variant, a page lookup that matches at least one record
\* carries, after the text, exactly one image block per matching record flagged
\* has_critical_visual, in the order of the records.
C13_PageImagesInEveryVariant ==
    PageFound =>
        /\ Len(last.images) = Cardinality(FlaggedAt(last.matched))
        /\ \A k \in 1..Len(last.images) :
              last.images[k] = last.matched[NthFlagged(last.matched, k)].visual_content

\* the retrieval query of the last invocation, its first call of the store,
\* failed
RetrievalFailed ==
    /\ Len(Calls("store")) > 0
    /\ Calls("store")[1] = StoreErr

\* C14: when the retrieval query of a search fails, the failure is caught at the
\* point of call and the caller receives, as a successful result (HTTP 200 or
\* tool success), a text that begins "Error calling vision model:"; no
\* exception and no error status reaches the caller.
C14_RetrievalFailSoft ==
    (IsSearch /\ RetrievalFailed)
        => /\ last.outcome \in {"return", "http"}
           /\ last.outcome = "http" => last.status = 200
           /\ Len(last.text) > 0
           /\ last.text[1] = "Error calling vision model: "

\* C15: in every HTTP variant, when the store query of a page lookup fails, the
\* response is HTTP 500 and carries the failure message.
C15_PageFailureIs500WithMessage ==
    (/\ IsGetPage
     /\ RetrievalFailed
     /\ \/ variant \in {"auth", "oauth"}
        \/ variant = "sse" /\ last.entry = "rest")
        => /\ last.outcome = "http"
           /\ last.status = 500
           /\ \E i \in 1..Len(last.text) : last.text[i] = StoreError

\* the environment values the variant needs to do its work
Required ==
    StoreNames \cup SynthNames
        \cup (IF variant \in {"auth", "oauth"} THEN ClerkNames ELSE {})

\* C16: if a required environment value (store URL, store API key, completion
\* API key, identity-provider secret or publishable key) is absent at startup,
\* startup fails and the process never takes a tool request.
C16_MissingConfigIsFatal ==
    (\E n \in Required : getenv(n) = Absent)
        => /\ last = NoInvocation
           /\ \A i \in Slots : req[i] = IdleReq

RECURSIVE Chars(_, _)
\* the number of characters in the first m runs of a content
Chars(c, m) == IF m = 0 THEN 0 ELSE Chars(c, m - 1) + c[m].n

\* min(500, length) of a content
Kept(c) == IF Chars(c, Len(c)) < 500 THEN Chars(c, Len(c)) ELSE 500

\* the number of runs the first Kept(c) characters of c lie in
ExcerptRuns(c) ==
    IF Kept(c) = 0 THEN 0
    ELSE CHOOSE m \in 1..Len(c) : Chars(c, m - 1) < Kept(c) /\ Kept(c) <= Chars(c, m)

RECURSIVE FragStart(_, _, _)
\* where the k-th fragment starts in a prompt whose first fragment starts at
\* first: a fragment is five atoms of heading, the excerpt and the ellipsis, and
\* a newline stands between two fragments
FragStart(objs, first, k) ==
    IF k = 1 THEN first
    ELSE FragStart(objs, first, k - 1) + 6 + ExcerptRuns(objs[k - 1].content) + 1

\* from position s on, text holds the fragment of record o: its heading, the
\* first min(500, length) characters of its content, and "..."
FragmentAt(text, s, o) ==
    LET c == o.content
        m == ExcerptRuns(c)
    IN  /\ text[s] = "["
        /\ text[s + 1] = o.section
        /\ text[s + 2] = " - Page "
        /\ text[s + 3] = ToString(o.page)
        /\ text[s + 4] = "]\n"
        /\ \A j \in 1..(m - 1) : text[s + 4 + j] = Atom(c[j].ch, c[j].n)
        /\ m > 0 => text[s + 4 + m] = Atom(c[m].ch, Kept(c) - Chars(c, m - 1))
        /\ text[s + 5 + m] = "..."

\* where the supporting-context block starts in the prompt of the variant:
\* after the three heading atoms, the page summary (or the agent's answer) and
\* the atom that introduces the block
ContextFirst ==
    IF variant = "qa" THEN 6 ELSE 2 * Len(last.matched) + 5

\* C17: for every search with at least one matched record, the
\* supporting-context block of the prompt holds exactly one fragment per
\* matched record (at most 5), in match order, and the content part of each
\* fragment is the first min(500, length) characters of the record's content
\* followed by "...", also when the content is shorter than 500 characters.
C17_OneExcerptPerMatch ==
    (IsSearch /\ Len(last.matched) > 0)
        => /\ Len(last.matched) <= 5
           /\ \A r \in 1..Len(last.sent) :
                 LET text == last.sent[r].text
                     n == Len(last.matched)
                 IN  /\ \A k \in 1..n :
                           /\ FragmentAt(text, FragStart(last.matched, ContextFirst, k),
                                         last.matched[k])
                           /\ k < n => text[FragStart(last.matched, ContextFirst, k + 1) - 1]
                                           = "\n"
                     /\ Len(text) = FragStart(last.matched, ContextFirst, n + 1) - 1

\* a search matched the chunk of 502 characters and a chunk of four: the
\* prompt quotes 499 "a" and one of the two "b" of the first, then "...", and
\* the whole of the second, then "..."
C17_Witness ==
    /\ IsSearch
    /\ Len(last.matched) = 2
    /\ last.matched[1].section = "Fans"
    /\ last.matched[2].section = "Wind"
    /\ Len(last.sent) = 1
    /\ \E s \in 1..Len(last.sent[1].text) - 2 :
          /\ last.sent[1].text[s] = Atom("a", 499)
          /\ last.sent[1].text[s + 1] = Atom("b", 1)
          /\ last.sent[1].text[s + 2] = "..."
    /\ \E s \in 1..Len(last.sent[1].text) - 1 :
          /\ last.sent[1].text[s] = Atom("d", 1)
          /\ last.sent[1].text[s + 1] = "..."

\* C18: for every search with at least one matched record, the page summary of
\* the prompt lists the page number of every matched record, separated by
\* ", ", in result order, one entry per record: a page that several records
\* share is listed once per record.
C18_SummaryListsEveryMatch ==
    (IsSearch /\ Len(last.matched) > 0 /\ variant # "qa")
        => \A r \in 1..Len(last.sent) :
              LET text == last.sent[r].text
                  n == Len(last.matched)
              IN  /\ text[4] = "Found relevant information on pages: "
                  /\ \A k \in 1..n : text[3 + 2 * k] = ToString(last.matched[k].page)
                  /\ \A k \in 1..(n - 1) : text[4 + 2 * k] = ", "
                  /\ text[2 * n + 4] = "\n\nAdditional context from relevant sections:\n"

\* a search matched the two chunks of page 1 with the chunk of page 2 between
\* them, and the summary of its prompt reads "1, 2, 1"
C18_Witness ==
    /\ IsSearch
    /\ variant # "qa"
    /\ Len(last.matched) = 3
    /\ last.matched[1].page = 1
    /\ last.matched[2].page = 2
    /\ last.matched[3].page = 1
    /\ Len(last.sent) = 1
    /\ SubSeq(last.sent[1].text, 5, 9) = <<"1", ", ", "2", ", ", "1">>

\* C19: no sequence of search and page-lookup invocations changes the Page
\* Content Store: it holds the records it held when the process started.
C19_StoreUnchanged == store = Manual

\* a stdio page lookup that matched records has completed while another
\* request awaits the store, and the store is as it was
C19_Witness ==
    /\ store = Manual
    /\ PageFound
    /\ variant = "stdio"
    /\ storeBuilt > 0
    /\ \E i \in Slots : req[i].pc = "querying"

\* the last invocation applied verify_clerk_session to a token
IsVerify == last.tool = "verify_clerk_session"

\* the number of "_" in the configured publishable key
Underscores ==
    LET key == env["NEXT_PUBLIC_CLERK_PUBLISHABLE_KEY"]
    IN  IF key = Absent THEN 0
        ELSE Cardinality({ i \in 1..Len(key[1]) : key[1][i] = "_" })

\* C20: verify_clerk_session returns session data only after the identity
\* provider answered 200 to that token; every other path (empty token, a
\* publishable key with fewer than three "_"-separated parts, whose internal
\* 500 "Invalid Clerk configuration" is caught, a non-200 answer, a transport
\* error) ends in HTTP 401 and never in 500.
C20_EveryRefusalIs401 ==
    IsVerify =>
        /\ last.outcome \in {"return", "raise"}
        /\ last.outcome = "return" =>
              /\ Len(last.idp) = 1
              /\ last.idp[1].status = 200
              /\ last.idp[1].token = last.hdr[1]
              /\ last.hdr[1] # ""
        /\ last.outcome = "raise" => last.status = 401
        /\ (last.hdr[1] = "" \/ Underscores < 2) =>
              last.outcome = "raise" /\ Len(last.idp) = 0
        /\ (Len(last.idp) = 1 /\ last.idp[1].status # 200) => last.outcome = "raise"

\* the publishable key has two parts: the 500 raised for it inside the try
\* came out as a 401 whose detail quotes it, and the provider was not asked
C20_Witness ==
    /\ IsVerify
    /\ Underscores = 1
    /\ last.hdr[1] = "sess_1"
    /\ last.outcome = "raise"
    /\ last.status = 401
    /\ last.text = <<"Auth failed: ", "500: Invalid Clerk configuration">>
    /\ Len(last.idp) = 0

\* in this step the coroutine of slot i ends because the creation of the store
\* handle it awaited in ensure_clients failed
StoreCreationFails(i) ==
    /\ variant = "stdio"
    /\ req[i].pc = "connecting"
    /\ req'[i].pc = "idle"
    /\ last'.text = <<ConnectError>>
    /\ last'.handle = 0

\* in this step a call_tool coroutine starts in slot i and goes on past the
\* checks of its name and argument
Enters(i) ==
    /\ variant = "stdio"
    /\ req[i].pc = "idle"
    /\ req'[i].pc # "idle"

\* C21: in the stdio variant, when the creation of the store handle fails in
\* ensure_clients, the call caches neither handle and both are unset after it,
\* the failure reaches the tool caller, and the next invocation attempts the
\* creation again; a cached synthesizer handle implies a cached store handle.
C21_FailedCreationCachesNothing ==
    [][ /\ \A i \in Slots :
              StoreCreationFails(i) =>
                  /\ weaviate_client' = 0
                  /\ openai_client' = 0
                  /\ last'.outcome = "raise"
        /\ \A i \in Slots :
              (Enters(i) /\ weaviate_client = 0) => req'[i].pc = "connecting"
        /\ (openai_client' # 0 => weaviate_client' # 0) ]_vars

\* the last invocation was answered 400 before any store query
Rejected400 ==
    /\ last.outcome = "http"
    /\ last.status = 400
    /\ Len(Calls("store")) = 0
    /\ Len(Calls("synth")) = 0

\* C22: in the bearer-authenticated variant a page lookup with page_number = 0
\* and a search with query = "" are treated as a missing parameter, answered
\* 400 without a store query, whereas every non-zero page_number, inside
\* 1..150 or not, is sent to the store as it is.
C22_FalsyArgumentIsMissing ==
    variant = "auth" =>
        /\ (IsGetPage /\ last.page = <<0>>) =>
              Rejected400 /\ last.text = <<"Missing 'page_number' parameter">>
        /\ (IsSearch /\ last.query = <<"">>) =>
              Rejected400 /\ last.text = <<"Missing 'query' parameter">>
        /\ (IsGetPage /\ last.page # Absent /\ last.page # <<0>>) =>
              /\ Len(Calls("store")) = 1
              /\ last.status # 400
              /\ \A k \in 1..Len(last.matched) : last.matched[k].page = last.page[1]
              /\ Calls("store")[1].ok => Len(last.matched) = Len(OnPage(last.page[1]))
                                          \/ Len(last.matched) = 10

\* the bearer endpoint was asked for page 0 and answered that page_number is
\* missing
C22_Witness ==
    /\ variant = "auth"
    /\ IsGetPage
    /\ last.page = <<0>>
    /\ Rejected400
    /\ last.text = <<"Missing 'page_number' parameter">>

\* the connection to the store or to the synthesizer that invocation a had to
\* open was refused
Refused(a) == \E i \in 1..Len(a.text) : a.text[i] = ConnectError

\* invocations a and b were given the same request and the same answers by the
\* services: the same calls answered or failed alike, the same records, the
\* same verdicts of the identity provider
SameInputs(a, b) ==
    /\ a.tool # "none"
    /\ a.entry = b.entry
    /\ a.tool = b.tool
    /\ a.query = b.query
    /\ a.page = b.page
    /\ a.hdr = b.hdr
    /\ a.idp = b.idp
    /\ a.calls = b.calls
    /\ a.matched = b.matched
    /\ Refused(a) = Refused(b)

\* invocations a and b gave the same result to the caller and the same request
\* to the synthesizer
SameResult(a, b) ==
    /\ a.outcome = b.outcome
    /\ a.status = b.status
    /\ a.key = b.key
    /\ a.text = b.text
    /\ a.images = b.images
    /\ a.sent = b.sent

UnknownName(a) == a.tool \notin {"none", "search_engineering_manual", "get_page_direct"}

\* C24: in the stdio variants (the stdio server and the query-agent server) a
\* tool invocation whose name is neither search_engineering_manual nor
\* get_page_direct raises "Unknown tool: <name>"; the step creates no client
\* handle and makes no store query and no synthesizer call.
C24_UnknownToolTouchesNothing ==
    [][ (variant \in {"stdio", "qa"} /\ last' # last /\ UnknownName(last')) =>
            /\ last'.outcome = "raise"
            /\ last'.text = <<"Unknown tool: ", last'.tool>>
            /\ last'.images = << >>
            /\ last'.calls = << >>
            /\ last'.sent = << >>
            /\ last'.matched = << >>
            /\ UNCHANGED <<weaviate_client, openai_client, storeBuilt, synthBuilt, store>> ]_vars

\* the stdio server was asked for other_tool and raised, and no handle has
\* been created in the process
C24_Witness ==
    /\ variant = "stdio"
    /\ last.tool = "other_tool"
    /\ last.outcome = "raise"
    /\ last.text = <<"Unknown tool: ", "other_tool">>
    /\ last.calls = << >>
    /\ weaviate_client = 0
    /\ openai_client = 0
    /\ storeBuilt = 0
    /\ synthBuilt = 0

====
